---- MODULE Spec2Model ----
(***************************************************************************)
(* The in-memory task store of the Task Manager application               *)
(* (TaskService, src/app/frontend/task-manager/src/app/services/          *)
(* task.service.ts): the task collection, the id counter and the tasks$   *)
(* notification channel, with one action per store operation.             *)
(*                                                                         *)
(* Encoding of JavaScript values:                                          *)
(*   - an optional value is a sequence: <<>> is undefined, <<v>> is v;     *)
(*   - a string id is the sequence of its base-10 digits ("12" is <<1,2>>);*)
(*   - a Date is an integer number of clock units; one unit stands for     *)
(*     3600000 ms, so the sample offsets 86400000, 3600000 and 259200000   *)
(*     of initializeSampleData are 24, 1 and 72;                           *)
(*   - an UpdateTaskRequest is a function whose DOMAIN is the set of keys  *)
(*     the object has (object spread copies own keys, also those whose     *)
(*     value is undefined).                                                *)
(***************************************************************************)
EXTENDS Integers, Sequences, FiniteSets

VARIABLES
    tasks,      \* _tasks: the value of the signal, a sequence of Task
    subject,    \* _tasks$: the current value of the BehaviorSubject
    nextId,     \* _nextId
    clock,      \* the value Date.now() / new Date() reads
    last,       \* the most recent store call: operation, arguments, result
    issued,     \* history: the ids returned by createTask, in call order
    clearedAt,  \* history: Len(issued) at the last clearAllTasks, -1 if none
    removedIds, \* history: the ids of tasks removed by delete or clear
    calls,      \* history: the number of store calls made so far
    currentFilter,  \* the task list's filter signal
    snap,       \* an array a caller got from tasks() or tasks$ and still holds
    inflight,   \* the promises returned to callers that have not resumed yet
    form,       \* TaskFormComponent: its fields, its form value, its submit in flight
    item,       \* TaskItemComponent, one per task id: isLoading, its handlers in flight
    events      \* history: what the components' outputs have emitted

vars ==
    <<tasks, subject, nextId, clock, last, issued, clearedAt, removedIds, calls,
      currentFilter, snap, inflight, form, item, events>>

\* the state of the components that call the store
uiVars == <<form, item, events>>

----------------------------------------------------------------------------
(* Bounds of the model *)

\* the number of store calls in a run
MaxCalls == 3
\* the number of createTask calls in a run
MaxCreates == 2
\* the number of clock units that pass in a run
MaxTicks == 1

----------------------------------------------------------------------------
(* JavaScript values *)

Undefined == <<>>
Some(v) == <<v>>

\* the || operator on an optional string: the left operand unless it is falsy
\* (undefined or the empty string)
OrElse(x, default) == IF x = Undefined \/ x = Some("") THEN default ELSE x[1]

\* Number.prototype.toString() of a non-negative integer: its base-10 digits
RECURSIVE ToString(_)
ToString(n) == IF n < 10 THEN <<n>> ELSE ToString(n \div 10) \o <<n % 10>>

----------------------------------------------------------------------------
(* Program constants *)

\* private _nextId = 1  (field initializer)
FieldNextId == 1
\* faulty variant: the constructor leaves the counter at its field initializer
NextIdNotSeeded == FieldNextId
\* this._nextId = 3  (initializeSampleData)
InitNextId == 3
\* faulty variant: clearAllTasks puts the counter back to the constructor's value
ClearedToSeeded == InitNextId
\* this._nextId = 1  (clearAllTasks)
ClearedNextId == 1
\* Date.now() - 86400000, Date.now() - 3600000, Date.now() + 259200000
SampleAge1 == 24
SampleAge2 == 1
SampleDue == 72

\* the keys of UpdateTaskRequest
PatchFields == {"title", "description", "completed", "priority", "dueDate"}
\* the keys of Task
TaskFields ==
    {"id", "title", "description", "completed", "priority",
     "createdAt", "updatedAt", "dueDate"}

\* the clock when the service is constructed
StartClock == SampleAge1

SampleTasks(now) ==
    << [id |-> <<1>>,
        title |-> "Configurar Angular Material",
        description |-> Some("Instalar y configurar Angular Material en el proyecto"),
        completed |-> TRUE,
        priority |-> "high",
        createdAt |-> now - SampleAge1,
        updatedAt |-> now - SampleAge1,
        dueDate |-> Undefined],
       [id |-> <<2>>,
        title |-> "Crear componentes de tareas",
        description |-> Some("Desarrollar los componentes de lista de tareas"),
        completed |-> FALSE,
        priority |-> "high",
        createdAt |-> now - SampleAge2,
        updatedAt |-> now - SampleAge2,
        dueDate |-> Some(now + SampleDue)] >>

----------------------------------------------------------------------------
(* Inputs *)

Due == StartClock + SampleDue

\* CreateTaskRequest: the title alone, and the optional fields absent, blank
\* or given
Requests ==
    { [title |-> "Buy milk", description |-> Undefined,
       priority |-> Undefined, dueDate |-> Undefined],
      [title |-> "Ship release", description |-> Undefined,
       priority |-> Some("high"), dueDate |-> Undefined],
      [title |-> "Buy milk", description |-> Some(""),
       priority |-> Some("medium"), dueDate |-> Some(Due)],
      [title |-> "Ship release", description |-> Some("d"),
       priority |-> Some("low"), dueDate |-> Some(Due)] }

\* UpdateTaskRequest: the empty patch, single fields, and the object
\* TaskFormComponent.onSubmit builds (all four form keys, blank ones undefined)
Patches ==
    { <<>>,
      [priority |-> "low"],
      [completed |-> TRUE],
      [title |-> "Ship release v2", description |-> Undefined,
       priority |-> "medium", dueDate |-> Undefined] }

\* ids a caller can pass: the ids the counter mints in a run
Ids == { ToString(n) : n \in 1..(InitNextId + MaxCreates - 1) }

NoId == <<>>
NoRequest == [title |-> "", description |-> Undefined,
              priority |-> Undefined, dueDate |-> Undefined]
NoPatch == <<>>
Null == <<>>

----------------------------------------------------------------------------
(* Pure parts of the operations *)

\* tasks.findIndex((t) => t.id === id): the first index, 0 for JavaScript's -1
FindIndex(ts, id) ==
    IF \E i \in 1..Len(ts) : ts[i].id = id
    THEN CHOOSE i \in 1..Len(ts) :
            /\ ts[i].id = id
            /\ \A j \in 1..(i - 1) : ts[j].id # id
    ELSE 0

Holds(ts, id) == FindIndex(ts, id) # 0

\* faulty variant: the optional fields are copied without their defaults
NewTaskNoDefaults(counter, req, now) ==
    [id |-> ToString(counter),
     title |-> req.title,
     description |-> req.description,
     completed |-> FALSE,
     priority |-> IF req.priority = Undefined THEN "low" ELSE req.priority[1],
     createdAt |-> now,
     updatedAt |-> now,
     dueDate |-> req.dueDate]

\* createTask: the object literal newTask
NewTask(counter, req, now) ==
    [id |-> ToString(counter),
     title |-> req.title,
     description |-> Some(OrElse(req.description, "")),
     completed |-> FALSE,
     priority |-> OrElse(req.priority, "medium"),
     createdAt |-> now,
     updatedAt |-> now,
     dueDate |-> req.dueDate]

\* faulty variant: the counter is not advanced
NoIncrement(counter) == counter
\* createTask: this._nextId++
IncrementId(counter) == counter + 1

\* createTask: [...this._tasks(), newTask]
AppendTask(ts, t) == Append(ts, t)

\* faulty variant: the spreads are in the other order, { ...updateRequest,
\* ...existingTask, updatedAt: new Date() }, so the stored fields win
MergeTaskExistingWins(existing, patch, now) ==
    [k \in TaskFields |-> IF k = "updatedAt" THEN now ELSE existing[k]]

\* faulty variant: the merge stamps createdAt as well, { ...existingTask,
\* ...updateRequest, createdAt: new Date(), updatedAt: new Date() }
MergeTaskRestamp(existing, patch, now) ==
    [k \in TaskFields |->
        IF k \in {"createdAt", "updatedAt"} THEN now
        ELSE IF k \in DOMAIN patch THEN patch[k]
        ELSE existing[k]]

\* updateTask: { ...existingTask, ...updateRequest, updatedAt: new Date() }
MergeTask(existing, patch, now) ==
    [k \in TaskFields |->
        IF k = "updatedAt" THEN now
        ELSE IF k \in DOMAIN patch THEN patch[k]
        ELSE existing[k]]

\* updateTask: updatedTasks = [...tasks]; updatedTasks[taskIndex] = updatedTask
ReplaceAt(ts, i, t) == [ts EXCEPT ![i] = t]

\* faulty variant: the filter keeps the matching task, tasks.filter((t) => t.id === id)
FilterKeepMatch(ts, id) == SelectSeq(ts, LAMBDA t : t.id = id)

\* deleteTask: tasks.filter((t) => t.id !== id)
FilterOut(ts, id) == SelectSeq(ts, LAMBDA t : t.id # id)

\* faulty variant: the patch marks the task completed, { completed: true }
TogglePatchSetTrue(task) == [completed |-> TRUE]

\* faulty variant: the negation is missing, { completed: task.completed }
TogglePatchSame(task) == [completed |-> task.completed]

\* toggleTaskCompletion: { completed: !task.completed }
TogglePatch(task) == [completed |-> ~task.completed]

IdsOf(ts) == { ts[i].id : i \in 1..Len(ts) }

\* the computed signals completedTasksCount, pendingTasksCount, totalTasksCount
completedTasksCount == Len(SelectSeq(tasks, LAMBDA t : t.completed))
\* faulty variant: the filter of pendingTasksCount lacks its negation
pendingCountNoNegation == Len(SelectSeq(tasks, LAMBDA t : t.completed))
pendingTasksCount == Len(SelectSeq(tasks, LAMBDA t : ~t.completed))
totalTasksCount == Len(tasks)

\* the filters of the task list, and its computed signal filteredTasks
Filters == {"all", "pending", "completed"}
\* faulty variant: the 'pending' case lacks its negation
filteredTasksNoNegation(filter, ts) ==
    CASE filter = "completed" -> SelectSeq(ts, LAMBDA task : task.completed)
      [] filter = "pending" -> SelectSeq(ts, LAMBDA task : task.completed)
      [] OTHER -> ts
filteredTasksFor(filter, ts) ==
    CASE filter = "completed" -> SelectSeq(ts, LAMBDA task : task.completed)
      [] filter = "pending" -> SelectSeq(ts, LAMBDA task : ~task.completed)
      [] OTHER -> ts
\* (named apart from deleteTask's local filteredTasks)
filteredTasksView == filteredTasksFor(currentFilter, tasks)

\* what a subscriber of tasks$ finds in the store while its callback runs
\* inside next(): the collection on the signal and the counter at that line
Seen(ts, counter) == [tasks |-> ts, nextId |-> counter]
\* a call that returns before it reaches next(): no callback runs
NoSeen == [tasks |-> <<>>, nextId |-> 0]

Call(op, id, req, patch, ret, deleted, emits, seen) ==
    [op |-> op, id |-> id, req |-> req, patch |-> patch,
     ret |-> ret, deleted |-> deleted, emits |-> emits, seen |-> seen]

\* References a caller holds.  snap.value is the array as it was handed out;
\* arrayLive says the signal still holds that very array object, liveIds names
\* the tasks whose objects in it are still the objects the store holds.
NoSnapshot == [taken |-> FALSE, value |-> <<>>, arrayLive |-> FALSE,
               liveIds |-> {}]
Handed(ts) == [taken |-> TRUE, value |-> ts, arrayLive |-> TRUE,
               liveIds |-> IdsOf(ts)]
\* the signal is given a newly allocated array ([...a], a.filter(...), []);
\* the objects of the tasks in dropped are not carried over into it
Installed(s, dropped) ==
    [s EXCEPT !.arrayLive = FALSE, !.liveIds = @ \ dropped]

\* What is left of an operation when it returns its promise: the write that
\* the part of its body after an await would make once it is resumed
NothingLeft == [id |-> NoId, patch |-> NoPatch]
Left(id, patch) == [id |-> id, patch |-> patch]

----------------------------------------------------------------------------
(* Strings the form handles *)

\* the characters of each string that is typed into the form or loaded into
\* it from a task
Spelling ==
    {
      <<"",
          <<>> >>,
      <<"   ",
          <<" ", " ", " ">> >>,
      <<"ab",
          <<"a", "b">> >>,
      <<" Pay ",
          <<" ", "P", "a", "y", " ">> >>,
      <<"Pay",
          <<"P", "a", "y">> >>,
      <<"Pay rent",
          <<"P", "a", "y", " ", "r", "e", "n", "t">> >>,
      <<"  ",
          <<" ", " ">> >>,
      <<" Notes ",
          <<" ", "N", "o", "t", "e", "s", " ">> >>,
      <<"Notes",
          <<"N", "o", "t", "e", "s">> >>,
      <<"Configurar Angular Material",
          <<"C", "o", "n", "f", "i", "g", "u", "r", "a", "r", " ", "A",
            "n", "g", "u", "l", "a", "r", " ", "M", "a", "t", "e", "r",
            "i", "a", "l">> >>,
      <<"Crear componentes de tareas",
          <<"C", "r", "e", "a", "r", " ", "c", "o", "m", "p", "o", "n",
            "e", "n", "t", "e", "s", " ", "d", "e", " ", "t", "a", "r",
            "e", "a", "s">> >>,
      <<"Instalar y configurar Angular Material en el proyecto",
          <<"I", "n", "s", "t", "a", "l", "a", "r", " ", "y", " ", "c",
            "o", "n", "f", "i", "g", "u", "r", "a", "r", " ", "A", "n",
            "g", "u", "l", "a", "r", " ", "M", "a", "t", "e", "r", "i",
            "a", "l", " ", "e", "n", " ", "e", "l", " ", "p", "r", "o",
            "y", "e", "c", "t", "o">> >>,
      <<"Desarrollar los componentes de lista de tareas",
          <<"D", "e", "s", "a", "r", "r", "o", "l", "l", "a", "r", " ",
            "l", "o", "s", " ", "c", "o", "m", "p", "o", "n", "e", "n",
            "t", "e", "s", " ", "d", "e", " ", "l", "i", "s", "t", "a",
            " ", "d", "e", " ", "t", "a", "r", "e", "a", "s">> >>
    }
Strings == { p[1] : p \in Spelling }
Chars(str) == (CHOOSE p \in Spelling : p[1] = str)[2]
\* a title one character over the limit of Validators.maxLength(100)
TooLong == "(a title of 101 characters)"
MaxTitleLength == 100
MinTitleLength == 3
MaxDescriptionLength == 500
Length(str) == IF str = TooLong THEN MaxTitleLength + 1 ELSE Len(Chars(str))

\* String.prototype.trim(): the string without its leading and trailing
\* white space
IsSpace(c) == c = " "
RECURSIVE TrimStart(_)
TrimStart(cs) ==
    IF cs # <<>> /\ IsSpace(Head(cs)) THEN TrimStart(Tail(cs)) ELSE cs
RECURSIVE TrimEnd(_)
TrimEnd(cs) ==
    IF cs # <<>> /\ IsSpace(cs[Len(cs)])
    THEN TrimEnd(SubSeq(cs, 1, Len(cs) - 1))
    ELSE cs
\* faulty variant: no trim before the store call
NoTrim(str) == str
Trim(str) ==
    IF str = TooLong THEN str
    ELSE CHOOSE t \in Strings : Chars(t) = TrimEnd(TrimStart(Chars(str)))

----------------------------------------------------------------------------
(* The components, as constructed *)

\* taskForm.reset({ title: '', description: '', priority: 'medium',
\* dueDate: null }), also the initial value given by initializeForm
FormDefaults ==
    [title |-> "", description |-> "", priority |-> "medium",
     dueDate |-> Undefined]

\* TaskFormComponent's field initializers; awaiting holds the submit that
\* is suspended at its await, if any
NewForm ==
    [isLoading |-> FALSE, isEditMode |-> FALSE, editingTaskId |-> Null,
     value |-> FormDefaults, touched |-> FALSE, awaiting |-> <<>>]

\* TaskItemComponent: isLoading = false in every item; awaiting holds the
\* handlers suspended at their await, oldest first
NewItems == [isLoading |-> {}, awaiting |-> <<>>]

Outputs ==
    {"taskCreated", "taskUpdated", "editCancelled", "taskToggled",
     "taskDeleted"}

\* nothing emitted yet, no store call made by a component yet, no task
\* loaded into the form (loaded: while the form is in edit mode, the id of
\* the task it was given and the value of clearedAt at that time, which
\* tells that task from a later one with the same id)
NoEvents ==
    [emitted |-> [o \in Outputs \ {"editCancelled"} |-> 0],
     succeeded |-> [o \in Outputs \ {"editCancelled"} |-> 0],
     now |-> {},
     loaded |-> <<>>]

----------------------------------------------------------------------------
(* Initial state: the fields' initializers, then the constructor *)

Init ==
    /\ clock = StartClock
    /\ tasks = SampleTasks(StartClock)
    /\ subject = SampleTasks(StartClock)
    /\ nextId = InitNextId
    /\ last = Call("constructor", NoId, NoRequest, NoPatch, Null, FALSE, 1,
                  Seen(SampleTasks(StartClock), FieldNextId))
    /\ issued = <<>>
    /\ clearedAt = -1
    /\ removedIds = {}
    /\ calls = 0
    /\ currentFilter = "all"
    /\ snap = NoSnapshot
    /\ inflight = <<>>
    /\ form = NewForm
    /\ item = NewItems
    /\ events = NoEvents

----------------------------------------------------------------------------
(* Operations *)

\* time passes between two calls
Tick ==
    /\ clock < StartClock + MaxTicks
    /\ clock' = clock + 1
    /\ UNCHANGED <<tasks, subject, nextId, last, issued, clearedAt, removedIds,
                   calls, currentFilter, snap, inflight>>
    /\ UNCHANGED uiVars

\* one more store call, within the bound of the run; no store operation
\* touches the list's filter.  The async function runs its whole body in the
\* call (it has no await) and returns a promise under which nothing is left.
Called ==
    /\ calls < MaxCalls
    /\ calls' = calls + 1
    /\ currentFilter' = currentFilter
    /\ inflight' = Append(inflight, NothingLeft)

\* faulty variant: the id is taken from the length of the collection
CreateTaskIdFromLength(req) ==
    /\ Called
    /\ Len(issued) < MaxCreates
    /\ LET newTask == NewTask(Len(tasks) + 1, req, clock)
           updatedTasks == AppendTask(tasks, newTask)
       IN /\ nextId' = IncrementId(nextId)
          /\ tasks' = updatedTasks
          /\ subject' = updatedTasks
          /\ last' = Call("createTask", NoId, req, NoPatch, Some(newTask), FALSE, 1,
                          Seen(updatedTasks, IncrementId(nextId)))
          /\ issued' = Append(issued, newTask.id)
          /\ snap' = Installed(snap, {})
    /\ UNCHANGED <<clock, clearedAt, removedIds>>
    /\ UNCHANGED uiVars

\* faulty variant: the new collection is set on the signal and not published
\* on tasks$
CreateTaskNoNotify(req) ==
    /\ Called
    /\ Len(issued) < MaxCreates
    /\ LET newTask == NewTask(nextId, req, clock)
           updatedTasks == AppendTask(tasks, newTask)
       IN /\ nextId' = IncrementId(nextId)
          /\ tasks' = updatedTasks
          /\ subject' = subject
          /\ last' = Call("createTask", NoId, req, NoPatch, Some(newTask), FALSE, 0,
                          NoSeen)
          /\ issued' = Append(issued, newTask.id)
          /\ snap' = Installed(snap, {})
    /\ UNCHANGED <<clock, clearedAt, removedIds>>
    /\ UNCHANGED uiVars

\* the body of createTask
createTask(req) ==
    /\ Len(issued) < MaxCreates
    /\ LET newTask == NewTask(nextId, req, clock)
           updatedTasks == AppendTask(tasks, newTask)
       IN /\ nextId' = IncrementId(nextId)
          /\ tasks' = updatedTasks
          /\ subject' = updatedTasks
          /\ last' = Call("createTask", NoId, req, NoPatch, Some(newTask), FALSE, 1,
                          Seen(updatedTasks, IncrementId(nextId)))
          /\ issued' = Append(issued, newTask.id)
          /\ snap' = Installed(snap, {})

\* createTask called by any caller but the form
CreateTask(req) ==
    /\ Called
    /\ createTask(req)
    /\ UNCHANGED <<clock, clearedAt, removedIds>>
    /\ UNCHANGED uiVars

\* faulty variant: the collection is re-published before the not-found return
UpdateNotifyAlways(op, id, patch) ==
    LET taskIndex == FindIndex(tasks, id) IN
    IF taskIndex = 0
    THEN /\ last' = Call(op, id, NoRequest, patch, Null, FALSE, 1, Seen(tasks, nextId))
         /\ tasks' = tasks
         /\ subject' = tasks
         /\ snap' = snap
    ELSE LET updatedTask == MergeTask(tasks[taskIndex], patch, clock)
             updatedTasks == ReplaceAt(tasks, taskIndex, updatedTask)
         IN /\ tasks' = updatedTasks
            /\ subject' = updatedTasks
            /\ last' = Call(op, id, NoRequest, patch, Some(updatedTask), FALSE, 1,
                            Seen(updatedTasks, nextId))
            /\ snap' = Installed(snap, {id})

\* faulty variant: the task object is assigned to in place, inside the array
\* the signal already holds
UpdateInPlace(op, id, patch) ==
    LET taskIndex == FindIndex(tasks, id) IN
    IF taskIndex = 0
    THEN /\ last' = Call(op, id, NoRequest, patch, Null, FALSE, 0, NoSeen)
         /\ UNCHANGED <<tasks, subject, snap>>
    ELSE LET updatedTask == MergeTask(tasks[taskIndex], patch, clock)
             updatedTasks == ReplaceAt(tasks, taskIndex, updatedTask)
         IN /\ tasks' = updatedTasks
            /\ subject' = updatedTasks
            /\ last' = Call(op, id, NoRequest, patch, Some(updatedTask), FALSE, 1,
                            Seen(updatedTasks, nextId))
            /\ snap' = snap

\* the body of updateTask, also run by toggleTaskCompletion
Update(op, id, patch) ==
    LET taskIndex == FindIndex(tasks, id) IN
    IF taskIndex = 0
    THEN /\ last' = Call(op, id, NoRequest, patch, Null, FALSE, 0, NoSeen)
         /\ UNCHANGED <<tasks, subject, snap>>
    ELSE LET updatedTask == MergeTask(tasks[taskIndex], patch, clock)
             updatedTasks == ReplaceAt(tasks, taskIndex, updatedTask)
         IN /\ tasks' = updatedTasks
            /\ subject' = updatedTasks
            /\ last' = Call(op, id, NoRequest, patch, Some(updatedTask), FALSE, 1,
                            Seen(updatedTasks, nextId))
            /\ snap' = Installed(snap, {id})

UpdateTask(id, patch) ==
    /\ Called
    /\ Update("updateTask", id, patch)
    /\ UNCHANGED <<nextId, clock, issued, clearedAt, removedIds>>
    /\ UNCHANGED uiVars

\* faulty variant: no early return when nothing was filtered out
DeleteTaskNoEarlyReturn(id) ==
    /\ Called
    /\ LET filteredTasks == FilterOut(tasks, id) IN
       /\ tasks' = filteredTasks
       /\ subject' = filteredTasks
       /\ last' = Call("deleteTask", id, NoRequest, NoPatch, Null, TRUE, 1,
                       Seen(filteredTasks, nextId))
       /\ removedIds' = removedIds \cup (IdsOf(tasks) \cap {id})
       /\ snap' = Installed(snap, {id})
    /\ UNCHANGED <<nextId, clock, issued, clearedAt>>
    /\ UNCHANGED uiVars

\* faulty variant: the filtered collection is published on tasks$ and not
\* set on the signal
DeleteTaskNoSet(id) ==
    /\ Called
    /\ LET filteredTasks == FilterOut(tasks, id) IN
       IF Len(filteredTasks) = Len(tasks)
       THEN /\ last' = Call("deleteTask", id, NoRequest, NoPatch, Null, FALSE, 0,
                            NoSeen)
            /\ UNCHANGED <<tasks, subject, removedIds, snap>>
       ELSE /\ tasks' = tasks
            /\ subject' = filteredTasks
            /\ last' = Call("deleteTask", id, NoRequest, NoPatch, Null, TRUE, 1,
                            Seen(filteredTasks, nextId))
            /\ removedIds' = removedIds \cup {id}
            /\ snap' = snap
    /\ UNCHANGED <<nextId, clock, issued, clearedAt>>
    /\ UNCHANGED uiVars

\* the body of deleteTask
deleteTask(id) ==
    LET filteredTasks == FilterOut(tasks, id) IN
       IF Len(filteredTasks) = Len(tasks)
       THEN /\ last' = Call("deleteTask", id, NoRequest, NoPatch, Null, FALSE, 0,
                            NoSeen)
            /\ UNCHANGED <<tasks, subject, removedIds, snap>>
       ELSE /\ tasks' = filteredTasks
            /\ subject' = filteredTasks
            /\ last' = Call("deleteTask", id, NoRequest, NoPatch, Null, TRUE, 1,
                            Seen(filteredTasks, nextId))
            /\ removedIds' = removedIds \cup {id}
            /\ snap' = Installed(snap, {id})

\* deleteTask called by any caller but a task item
DeleteTask(id) ==
    /\ Called
    /\ deleteTask(id)
    /\ UNCHANGED <<nextId, clock, issued, clearedAt>>
    /\ UNCHANGED uiVars

\* faulty variant: an await stands between the read of completed and the
\* call of updateTask, so the write is left for the resumption
ToggleSuspended(id) ==
    /\ calls < MaxCalls
    /\ calls' = calls + 1
    /\ currentFilter' = currentFilter
    /\ inflight' = Append(inflight,
            IF Holds(tasks, id)
            THEN Left(id, TogglePatch(tasks[FindIndex(tasks, id)]))
            ELSE NothingLeft)
    /\ last' = Call("toggleTaskCompletion", id, NoRequest, NoPatch,
                    Null, FALSE, 0, NoSeen)
    /\ UNCHANGED <<tasks, subject, snap>>
    /\ UNCHANGED <<nextId, clock, issued, clearedAt, removedIds>>
    /\ UNCHANGED uiVars

\* the body of toggleTaskCompletion
toggleTaskCompletion(id) ==
    IF ~Holds(tasks, id)
    THEN /\ last' = Call("toggleTaskCompletion", id, NoRequest, NoPatch,
                         Null, FALSE, 0, NoSeen)
         /\ UNCHANGED <<tasks, subject, snap>>
    ELSE Update("toggleTaskCompletion", id,
                TogglePatch(tasks[FindIndex(tasks, id)]))

\* toggleTaskCompletion called by any caller but a task item
ToggleTaskCompletion(id) ==
    /\ Called
    /\ toggleTaskCompletion(id)
    /\ UNCHANGED <<nextId, clock, issued, clearedAt, removedIds>>
    /\ UNCHANGED uiVars

\* faulty variant: the collection is emptied and the counter keeps its value
ClearAllTasksKeepCounter ==
    /\ Called
    /\ tasks' = <<>>
    /\ subject' = <<>>
    /\ last' = Call("clearAllTasks", NoId, NoRequest, NoPatch, Null, FALSE, 1,
                  Seen(<<>>, nextId))
    /\ clearedAt' = Len(issued)
    /\ removedIds' = removedIds \cup IdsOf(tasks)
    /\ snap' = Installed(snap, IdsOf(tasks))
    /\ UNCHANGED <<nextId, clock, issued>>
    /\ UNCHANGED uiVars

ClearAllTasks ==
    /\ Called
    /\ tasks' = <<>>
    /\ subject' = <<>>
    /\ nextId' = ClearedNextId
    /\ last' = Call("clearAllTasks", NoId, NoRequest, NoPatch, Null, FALSE, 1,
                  Seen(<<>>, nextId))
    /\ clearedAt' = Len(issued)
    /\ removedIds' = removedIds \cup IdsOf(tasks)
    /\ snap' = Installed(snap, IdsOf(tasks))
    /\ UNCHANGED <<clock, issued>>
    /\ UNCHANGED uiVars

Next ==
    \/ Tick
    \/ \E req \in Requests : CreateTask(req)
    \/ \E id \in Ids, patch \in Patches : UpdateTask(id, patch)
    \/ \E id \in Ids : DeleteTask(id)
    \/ \E id \in Ids : ToggleTaskCompletion(id)
    \/ ClearAllTasks

Spec == Init /\ [][Next]_vars

\* the task list's setFilter
SetFilter(filter) ==
    /\ currentFilter' = filter
    /\ UNCHANGED <<tasks, subject, nextId, clock, last, issued, clearedAt,
                   removedIds, calls, snap, inflight>>
    /\ UNCHANGED uiVars

\* the store together with the task list that shows it
NextFilter ==
    \/ Next
    \/ \E filter \in Filters : SetFilter(filter)

SpecFilter == Init /\ [][NextFilter]_vars

\* a caller reads tasks(), or is handed the array by tasks$, and keeps it
TakeSnapshot ==
    /\ ~snap.taken
    /\ \E ts \in {tasks, subject} : snap' = Handed(ts)
    /\ UNCHANGED <<tasks, subject, nextId, clock, last, issued, clearedAt,
                   removedIds, calls, currentFilter, inflight>>
    /\ UNCHANGED uiVars

\* the store together with a caller that keeps what it read
NextSnapshot ==
    \/ Next
    \/ TakeSnapshot

SpecSnapshot == Init /\ [][NextSnapshot]_vars

\* the caller that awaited the oldest promise resumes; what the operation
\* left undone, if anything, runs now
Resume ==
    /\ inflight # <<>>
    /\ inflight' = Tail(inflight)
    /\ IF Head(inflight) = NothingLeft
       THEN UNCHANGED <<tasks, subject, last, snap>>
       ELSE Update("toggleTaskCompletion", Head(inflight).id,
                   Head(inflight).patch)
    /\ UNCHANGED <<nextId, clock, issued, clearedAt, removedIds, calls,
                   currentFilter>>
    /\ UNCHANGED uiVars

\* the store together with callers that await its promises
NextCallers ==
    \/ Next
    \/ Resume

SpecCallers == Init /\ [][NextCallers]_vars

----------------------------------------------------------------------------
(* TaskFormComponent *)

\* what a handler leaves alone when it makes no store call
storeVars ==
    <<tasks, subject, nextId, clock, last, issued, clearedAt, removedIds,
      calls, currentFilter, snap, inflight>>

\* values the user leaves in the form: complete, with blanks, a title of
\* white space, a title too short, no title, a title too long
FormValues ==
    { [title |-> "Pay rent", description |-> " Notes ", priority |-> "high",
       dueDate |-> Some(Due)],
      [title |-> " Pay ", description |-> "", priority |-> "medium",
       dueDate |-> Undefined],
      [title |-> "   ", description |-> "  ", priority |-> "low",
       dueDate |-> Undefined],
      [title |-> "ab", description |-> "", priority |-> "medium",
       dueDate |-> Undefined],
      [title |-> "", description |-> "Notes", priority |-> "medium",
       dueDate |-> Undefined],
      [title |-> TooLong, description |-> "", priority |-> "medium",
       dueDate |-> Undefined] }

\* taskForm.valid: Validators.required, minLength(3), maxLength(100) on the
\* title as typed, maxLength(500) on the description, required on priority
Valid(v) ==
    /\ Length(v.title) # 0
    /\ Length(v.title) >= MinTitleLength
    /\ Length(v.title) <= MaxTitleLength
    /\ Length(v.description) <= MaxDescriptionLength
    /\ v.priority # ""

\* formValue.description?.trim() || undefined
Blankable(str) == IF Trim(str) = "" THEN Undefined ELSE Some(Trim(str))

\* faulty variant: the blank fields are left out of the object
UpdateRequestNoBlanks(v) ==
    LET given == {"title", "priority"}
            \cup (IF Blankable(v.description) = Undefined THEN {}
                  ELSE {"description"})
            \cup (IF v.dueDate = Undefined THEN {} ELSE {"dueDate"})
    IN [k \in given |->
          CASE k = "title" -> Trim(v.title)
            [] k = "description" -> Blankable(v.description)
            [] k = "priority" -> v.priority
            [] k = "dueDate" -> v.dueDate]
\* onSubmit, edit mode: the object literal updateRequest (all four keys)
UpdateRequest(v) ==
    [title |-> Trim(v.title), description |-> Blankable(v.description),
     priority |-> v.priority, dueDate |-> v.dueDate]

\* onSubmit, create mode: the object literal taskRequest
TaskRequest(v) ==
    [title |-> Trim(v.title), description |-> Blankable(v.description),
     priority |-> Some(v.priority), dueDate |-> v.dueDate]

\* the outputs' emissions of one handler step, added to the history
Emit(outs) ==
    [events EXCEPT !.now = outs,
                   !.emitted = [o \in DOMAIN @ |->
                                  IF o \in outs THEN @[o] + 1 ELSE @[o]]]
\* a store call made by a component, counted when it succeeded
Counted(out, ok) ==
    [events EXCEPT !.now = {},
                   !.succeeded[out] = IF ok THEN @ + 1 ELSE @]

\* resetForm
ResetForm(f) == [f EXCEPT !.value = FormDefaults, !.touched = FALSE]

\* cancelEdit without its emit
LeaveEditMode(f) ==
    ResetForm([f EXCEPT !.isEditMode = FALSE, !.editingTaskId = Null])

\* TaskListComponent.onTaskEdit(task) -> initializeEditMode(task), for a
\* task the list shows
InitializeEditMode(task) ==
    /\ form' = [form EXCEPT
            !.isEditMode = TRUE,
            !.editingTaskId = task.id,
            !.value = [title |-> task.title,
                       description |-> OrElse(task.description, ""),
                       priority |-> task.priority,
                       dueDate |-> task.dueDate]]
    /\ events' = [Emit({}) EXCEPT !.loaded = <<task.id, clearedAt>>]
    /\ UNCHANGED <<item, storeVars>>

CancelEdit ==
    /\ form' = LeaveEditMode(form)
    /\ events' = [Emit({"editCancelled"}) EXCEPT !.loaded = <<>>]
    /\ UNCHANGED <<item, storeVars>>

\* the user edits the form's controls
SetValue(v) ==
    /\ form' = [form EXCEPT !.value = v]
    /\ events' = Emit({})
    /\ UNCHANGED <<item, storeVars>>

\* the submit suspended at its await, with what the store call returned
Awaiting(mode, ret) == <<[mode |-> mode, result |-> ret]>>

\* faulty variant: the form's validity is not looked at
OnSubmitUnchecked ==
    IF ~form.isLoading
    THEN IF form.isEditMode /\ form.editingTaskId # Null
         THEN /\ Called
              /\ Update("updateTask", form.editingTaskId,
                        UpdateRequest(form.value))
              /\ form' = [form EXCEPT !.isLoading = TRUE,
                                      !.awaiting = Awaiting("edit", last'.ret)]
              /\ events' = Counted("taskUpdated", last'.ret # Null)
              /\ UNCHANGED <<nextId, clock, issued, clearedAt, removedIds, item>>
         ELSE /\ Called
              /\ createTask(TaskRequest(form.value))
              /\ form' = [form EXCEPT !.isLoading = TRUE,
                                      !.awaiting = Awaiting("create", last'.ret)]
              /\ events' = Counted("taskCreated", TRUE)
              /\ UNCHANGED <<clock, clearedAt, removedIds, item>>
    ELSE /\ form' = [form EXCEPT !.touched = TRUE]
         /\ events' = Emit({})
         /\ UNCHANGED <<item, storeVars>>

\* faulty variant: in edit mode a task that is no longer in the list is
\* saved as a new task
OnSubmitSavesAsNew ==
    IF Valid(form.value) /\ ~form.isLoading
    THEN IF /\ form.isEditMode /\ form.editingTaskId # Null
            /\ Holds(tasks, form.editingTaskId)
         THEN /\ Called
              /\ Update("updateTask", form.editingTaskId,
                        UpdateRequest(form.value))
              /\ form' = [form EXCEPT !.isLoading = TRUE,
                                      !.awaiting = Awaiting("edit", last'.ret)]
              /\ events' = Counted("taskUpdated", last'.ret # Null)
              /\ UNCHANGED <<nextId, clock, issued, clearedAt, removedIds, item>>
         ELSE /\ Called
              /\ createTask(TaskRequest(form.value))
              /\ form' = [form EXCEPT !.isLoading = TRUE,
                                      !.awaiting = Awaiting("create", last'.ret)]
              /\ events' = Counted("taskCreated", TRUE)
              /\ UNCHANGED <<clock, clearedAt, removedIds, item>>
    ELSE /\ form' = [form EXCEPT !.touched = TRUE]
         /\ events' = Emit({})
         /\ UNCHANGED <<item, storeVars>>

\* onSubmit up to its await: the guard, isLoading = true, and the store
\* call, whose body runs within the call; else markFormGroupTouched
OnSubmit ==
    IF Valid(form.value) /\ ~form.isLoading
    THEN IF form.isEditMode /\ form.editingTaskId # Null
         THEN /\ Called
              /\ Update("updateTask", form.editingTaskId,
                        UpdateRequest(form.value))
              /\ form' = [form EXCEPT !.isLoading = TRUE,
                                      !.awaiting = Awaiting("edit", last'.ret)]
              /\ events' = Counted("taskUpdated", last'.ret # Null)
              /\ UNCHANGED <<nextId, clock, issued, clearedAt, removedIds, item>>
         ELSE /\ Called
              /\ createTask(TaskRequest(form.value))
              /\ form' = [form EXCEPT !.isLoading = TRUE,
                                      !.awaiting = Awaiting("create", last'.ret)]
              /\ events' = Counted("taskCreated", TRUE)
              /\ UNCHANGED <<clock, clearedAt, removedIds, item>>
    ELSE /\ form' = [form EXCEPT !.touched = TRUE]
         /\ events' = Emit({})
         /\ UNCHANGED <<item, storeVars>>

\* faulty variant: taskUpdated is emitted whatever updateTask returned
OnSubmitResumedEmitsAlways ==
    /\ form.awaiting # <<>>
    /\ LET a == form.awaiting[1]
           done(f) == [f EXCEPT !.isLoading = FALSE, !.awaiting = <<>>]
       IN IF a.mode = "edit"
          THEN /\ form' = done(LeaveEditMode(form))
               /\ events' = [Emit({"taskUpdated", "editCancelled"})
                               EXCEPT !.loaded = <<>>]
          ELSE /\ form' = done(ResetForm(form))
               /\ events' = Emit({"taskCreated"})
    /\ UNCHANGED <<item, storeVars>>

\* onSubmit from its await on: the emit, cancelEdit() or resetForm(), and
\* the finally block
OnSubmitResumed ==
    /\ form.awaiting # <<>>
    /\ LET a == form.awaiting[1]
           done(f) == [f EXCEPT !.isLoading = FALSE, !.awaiting = <<>>]
       IN IF a.mode = "edit"
          THEN IF a.result # Null
               THEN /\ form' = done(LeaveEditMode(form))
                    /\ events' = [Emit({"taskUpdated", "editCancelled"})
                                    EXCEPT !.loaded = <<>>]
               ELSE /\ form' = done(form)
                    /\ events' = Emit({})
          ELSE /\ form' = done(ResetForm(form))
               /\ events' = Emit({"taskCreated"})
    /\ UNCHANGED <<item, storeVars>>

----------------------------------------------------------------------------
(* TaskItemComponent *)

\* the handler suspended at its await, with what the store call returned
Suspended(id, out, ok) == [id |-> id, out |-> out, ok |-> ok]

\* faulty variant: the handler does not look at isLoading
OnToggleCompleteUnguarded(id) ==
    /\ Called
    /\ toggleTaskCompletion(id)
    /\ item' = [isLoading |-> item.isLoading \cup {id},
                awaiting |-> Append(item.awaiting,
                    Suspended(id, "taskToggled", last'.ret # Null))]
    /\ events' = Counted("taskToggled", last'.ret # Null)
    /\ UNCHANGED <<nextId, clock, issued, clearedAt, removedIds, form>>

\* onToggleComplete of the item of task id, up to its await
OnToggleComplete(id) ==
    IF id \in item.isLoading
    THEN UNCHANGED vars
    ELSE /\ Called
         /\ toggleTaskCompletion(id)
         /\ item' = [isLoading |-> item.isLoading \cup {id},
                     awaiting |-> Append(item.awaiting,
                         Suspended(id, "taskToggled", last'.ret # Null))]
         /\ events' = Counted("taskToggled", last'.ret # Null)
         /\ UNCHANGED <<nextId, clock, issued, clearedAt, removedIds, form>>

\* onDeleteTask of the item of task id, up to its await; confirmed is the
\* user's answer to confirm()
OnDeleteTask(id, confirmed) ==
    IF id \in item.isLoading \/ ~confirmed
    THEN UNCHANGED vars
    ELSE /\ Called
         /\ deleteTask(id)
         /\ item' = [isLoading |-> item.isLoading \cup {id},
                     awaiting |-> Append(item.awaiting,
                         Suspended(id, "taskDeleted", last'.deleted))]
         /\ events' = Counted("taskDeleted", last'.deleted)
         /\ UNCHANGED <<nextId, clock, issued, clearedAt, form>>

\* faulty variant: isLoading is set back only when the call succeeded
ItemResumedNoFinally ==
    /\ item.awaiting # <<>>
    /\ LET a == Head(item.awaiting) IN
       /\ item' = [isLoading |-> IF a.ok THEN item.isLoading \ {a.id}
                                  ELSE item.isLoading,
                   awaiting |-> Tail(item.awaiting)]
       /\ events' = Emit(IF a.ok THEN {a.out} ELSE {})
    /\ UNCHANGED <<form, storeVars>>

\* the oldest suspended handler from its await on: the emit and the
\* finally block
ItemResumed ==
    /\ item.awaiting # <<>>
    /\ LET a == Head(item.awaiting) IN
       /\ item' = [isLoading |-> item.isLoading \ {a.id},
                   awaiting |-> Tail(item.awaiting)]
       /\ events' = Emit(IF a.ok THEN {a.out} ELSE {})
    /\ UNCHANGED <<form, storeVars>>

----------------------------------------------------------------------------
(* The application: the components are the store's callers *)

\* the form in use, while tasks are removed from the list
NextForm ==
    \/ \E i \in 1..Len(tasks) : InitializeEditMode(tasks[i])
    \/ CancelEdit
    \/ \E v \in FormValues : SetValue(v)
    \/ OnSubmit
    \/ OnSubmitResumed
    \/ \E id \in Ids : DeleteTask(id)
    \/ ClearAllTasks

SpecForm == Init /\ [][NextForm]_vars

\* the items in use, while the list is cleared
NextItem ==
    \/ \E id \in Ids : OnToggleComplete(id)
    \/ \E id \in Ids, confirmed \in BOOLEAN : OnDeleteTask(id, confirmed)
    \/ ItemResumed
    \/ ClearAllTasks

SpecItem == Init /\ [][NextItem]_vars

\* a suspended handler is resumed: the microtask queue is always drained
SpecItemFair == SpecItem /\ WF_vars(ItemResumed)

\* the items and the form together: tasks are loaded into the form and
\* submitted as loaded, toggled and deleted from their items, and cleared
NextUi ==
    \/ \E i \in 1..Len(tasks) : InitializeEditMode(tasks[i])
    \/ CancelEdit
    \/ OnSubmit
    \/ OnSubmitResumed
    \/ \E id \in Ids : OnToggleComplete(id)
    \/ \E id \in Ids, confirmed \in BOOLEAN : OnDeleteTask(id, confirmed)
    \/ ItemResumed
    \/ ClearAllTasks

SpecUi == Init /\ [][NextUi]_vars

----------------------------------------------------------------------------
(* Identifiers *)

\* the numeric value of a digit string
RECURSIVE ToNumber(_)
ToNumber(s) ==
    IF Len(s) = 0 THEN 0
    ELSE 10 * ToNumber(SubSeq(s, 1, Len(s) - 1)) + s[Len(s)]

\* no clearAllTasks has been called since construction
NeverCleared == clearedAt = -1
\* a createTask has been called since the last clearAllTasks
CreatedAfterClear == clearedAt >= 0 /\ Len(issued) > clearedAt
\* the id the first createTask returns on a freshly constructed store
FreshFirstId == NewTask(InitNextId, CHOOSE r \in Requests : TRUE, StartClock).id

\* C1: in every reachable state no two tasks held by the store have the same
\* id.
C1_UniqueIds ==
    \A i, j \in 1..Len(tasks) : i # j => tasks[i].id # tasks[j].id

\* C1 witness: after a clearAllTasks and two createTask calls the store holds
\* two tasks, one of them under an id a removed task held.
C1_Witness ==
    /\ clearedAt >= 0
    /\ Len(tasks) >= 2
    /\ \E i \in 1..Len(tasks) : tasks[i].id \in removedIds

\* C2: in a run with no clearAllTasks the ids createTask returns are strictly
\* increasing as numbers in call order, so no id is issued twice.
C2_IncreasingIds ==
    NeverCleared =>
        \A i, j \in 1..Len(issued) :
            i < j => ToNumber(issued[i]) < ToNumber(issued[j])

\* C2 witness: the second createTask has just returned, after the task the
\* first one created was deleted.
C2_Witness ==
    /\ NeverCleared
    /\ Len(issued) = 2
    /\ last.op = "createTask"
    /\ issued[1] \in removedIds

\* C3 as stated: on a newly constructed store the first createTask returns
\* id "1" and the second id "2".
C3_Original ==
    NeverCleared =>
        /\ Len(issued) >= 1 => issued[1] = <<1>>
        /\ Len(issued) >= 2 => issued[2] = <<2>>

\* C3 amended: a newly constructed store holds the sample tasks "1" and "2"
\* and its counter starts at 3: the first createTask returns id "3" and the
\* second id "4".
C3_FreshStoreIds ==
    /\ calls = 0 => IdsOf(tasks) = {<<1>>, <<2>>} /\ nextId = 3
    /\ NeverCleared =>
        /\ Len(issued) >= 1 => issued[1] = <<3>>
        /\ Len(issued) >= 2 => issued[2] = <<4>>

\* C3 witness: two createTask calls on a store that was never cleared.
C3_Witness == NeverCleared /\ Len(issued) = 2 /\ last.op = "createTask"

\* C4 as stated: the first createTask after a clearAllTasks returns the id
\* the first createTask returns on a freshly constructed store.
C4_Original == CreatedAfterClear => issued[clearedAt + 1] = FreshFirstId

\* C4 amended: the first createTask after a clearAllTasks returns id "1",
\* which is not the id ("3") the first createTask returns on a freshly
\* constructed store.
C4_FirstIdAfterClear ==
    /\ FreshFirstId = <<3>>
    /\ CreatedAfterClear => issued[clearedAt + 1] = <<1>>

\* C4 witness: a createTask has just returned after a clearAllTasks.
C4_Witness == CreatedAfterClear /\ last.op = "createTask"

\* C5: right after clearAllTasks the collection is empty, the three counts
\* are 0 and the counter is 1, and the next createTask returns id "1".
C5_ClearIsFullReset ==
    /\ last.op = "clearAllTasks" =>
        /\ tasks = <<>>
        /\ totalTasksCount = 0
        /\ completedTasksCount = 0
        /\ pendingTasksCount = 0
        /\ ToString(nextId) = <<1>>
    /\ CreatedAfterClear =>
        issued[clearedAt + 1] = <<1>>

\* C5 witness: a task created after clearAllTasks is held under an id that a
\* task removed by that clearAllTasks held.
C5_Witness ==
    /\ CreatedAfterClear
    /\ \E i \in 1..Len(tasks) :
        /\ tasks[i].id \in removedIds
        /\ tasks[i].createdAt >= StartClock


----------------------------------------------------------------------------
(* The effect of one call *)

\* the step is a call of the store operation op
IsCall(op) == calls' = calls + 1 /\ last'.op = op

\* C6: createTask returns a task whose id is the counter before the call,
\* with completed = false, the request's priority or "medium", the request's
\* description or "", and createdAt = updatedAt; the counter grows by one and
\* the task is appended after the unchanged previous tasks.
C6_CreateTaskEffect ==
    [][IsCall("createTask") =>
        /\ Len(last'.ret) = 1
        /\ LET req == last'.req
               t == last'.ret[1]
           IN /\ t.id = ToString(nextId)
              /\ t.completed = FALSE
              /\ t.priority =
                    IF req.priority = Undefined THEN "medium" ELSE req.priority[1]
              /\ t.description =
                    IF req.description = Undefined THEN Some("")
                    ELSE req.description
              /\ t.createdAt = t.updatedAt
              /\ nextId' = nextId + 1
              /\ Len(tasks') = Len(tasks) + 1
              /\ tasks'[Len(tasks')] = t
              /\ SubSeq(tasks', 1, Len(tasks)) = tasks]_vars

\* C6 witness: a createTask with neither priority nor description has just
\* appended its task after two held tasks.
C6_Witness ==
    /\ last.op = "createTask"
    /\ last.req.priority = Undefined
    /\ last.req.description = Undefined
    /\ Len(tasks) = 3
    /\ tasks[3] = last.ret[1]
    /\ tasks[3].priority = "medium"

\* C7: an updateTask of a held id changes only that task, and of it only the
\* fields the patch names and updatedAt, which becomes the time of the call;
\* id, createdAt, position, the other tasks, the length and the counter are
\* unchanged and the returned task is the stored one.
C7_UpdateTaskFrame ==
    [][IsCall("updateTask") /\ Holds(tasks, last'.id) =>
        LET i == FindIndex(tasks, last'.id)
            patch == last'.patch
        IN /\ Len(tasks') = Len(tasks)
           /\ \A j \in 1..Len(tasks) : j # i => tasks'[j] = tasks[j]
           /\ \A k \in TaskFields \ {"updatedAt"} :
                k \notin DOMAIN patch => tasks'[i][k] = tasks[i][k]
           /\ \A k \in DOMAIN patch : tasks'[i][k] = patch[k]
           /\ tasks'[i].id = tasks[i].id
           /\ tasks'[i].createdAt = tasks[i].createdAt
           /\ tasks'[i].updatedAt = clock
           /\ nextId' = nextId
           /\ last'.ret = <<tasks'[i]>>]_vars

\* C7 witness: an updateTask with the empty patch has refreshed the updatedAt
\* of the first of several tasks.
C7_Witness ==
    /\ last.op = "updateTask"
    /\ Len(last.ret) = 1
    /\ DOMAIN last.patch = {}
    /\ Len(tasks) >= 2
    /\ tasks[1] = last.ret[1]
    /\ tasks[1].updatedAt > tasks[1].createdAt

\* C8: updateTask and toggleTaskCompletion of an id that is not held return
\* null and change nothing: not the collection, not the counter, and nothing
\* is emitted on tasks$.
C8_NotFoundNoEffect ==
    [][(IsCall("updateTask") \/ IsCall("toggleTaskCompletion"))
       /\ ~Holds(tasks, last'.id) =>
        /\ last'.ret = Null
        /\ tasks' = tasks
        /\ nextId' = nextId
        /\ subject' = subject
        /\ last'.emits = 0]_vars

\* C8 witness: an updateTask with a non-empty patch has returned null for an
\* id that was held before, while other tasks are held.
C8_Witness ==
    /\ last.op = "updateTask"
    /\ last.ret = Null
    /\ DOMAIN last.patch # {}
    /\ last.id \in removedIds
    /\ Len(tasks) >= 1

\* C9: deleteTask of a held id returns true and removes exactly that task:
\* the others remain, unchanged and in order, and the counter is unchanged.
C9_DeleteTaskFrame ==
    [][IsCall("deleteTask") /\ Holds(tasks, last'.id) =>
        LET i == FindIndex(tasks, last'.id) IN
        /\ last'.deleted = TRUE
        /\ Len(tasks') = Len(tasks) - 1
        /\ \A j \in 1..(i - 1) : tasks'[j] = tasks[j]
        /\ \A j \in (i + 1)..Len(tasks) : tasks'[j - 1] = tasks[j]
        /\ nextId' = nextId]_vars

\* C9 witness: a deleteTask has removed a task from between two others.
C9_Witness ==
    /\ last.op = "deleteTask"
    /\ last.deleted
    /\ \E i, j \in 1..Len(tasks) :
        /\ j = i + 1
        /\ ToNumber(tasks[i].id) < ToNumber(last.id)
        /\ ToNumber(last.id) < ToNumber(tasks[j].id)

\* C10: deleteTask of an id that is not held returns false, leaves collection
\* and counter unchanged and emits nothing on tasks$; a deleteTask that
\* follows a deleteTask of the same id returns false and changes nothing.
C10_DeleteIdempotent ==
    [][/\ IsCall("deleteTask") /\ ~Holds(tasks, last'.id) =>
            /\ last'.deleted = FALSE
            /\ tasks' = tasks
            /\ nextId' = nextId
            /\ subject' = subject
            /\ last'.emits = 0
       /\ IsCall("deleteTask") /\ last.op = "deleteTask" /\ last'.id = last.id =>
            /\ last'.deleted = FALSE
            /\ tasks' = tasks
            /\ nextId' = nextId]_vars

\* C10 witness: the store's first two calls were deleteTask of the same
\* sample task; the second has returned false.
C10_Witness ==
    /\ calls = 2
    /\ issued = <<>>
    /\ clearedAt = -1
    /\ Len(tasks) = 1
    /\ last.op = "deleteTask"
    /\ last.deleted = FALSE
    /\ last.id \in removedIds

----------------------------------------------------------------------------
(* Sequences of calls *)

\* C11: an updateTask or toggleTaskCompletion that follows a deleteTask of the
\* same id that returned true (no other call in between) returns null and
\* changes neither the collection nor the counter, and emits nothing.
C11_DeleteThenUpdateFails ==
    [][(IsCall("updateTask") \/ IsCall("toggleTaskCompletion"))
       /\ last.op = "deleteTask" /\ last.deleted /\ last'.id = last.id =>
        /\ last'.ret = Null
        /\ tasks' = tasks
        /\ subject' = subject
        /\ nextId' = nextId
        /\ last'.emits = 0]_vars

\* C11 witness: the store's first call deleted a sample task and the second,
\* a toggleTaskCompletion of the same id, has returned null.
C11_Witness ==
    /\ calls = 2
    /\ issued = <<>>
    /\ clearedAt = -1
    /\ Len(tasks) = 1
    /\ last.op = "toggleTaskCompletion"
    /\ last.ret = Null
    /\ removedIds = {last.id}

\* C12: toggleTaskCompletion(id) returns and installs what updateTask(id,
\* {completed: not c}) does, c being the completed flag of the first task
\* with that id at the call: the merged task at the same position, or null
\* and no change when the id is not held.
C12_ToggleIsUpdate ==
    [][IsCall("toggleTaskCompletion") =>
        LET id == last'.id
            i == FindIndex(tasks, id)
        IN IF i = 0
           THEN /\ last'.ret = Null
                /\ tasks' = tasks
                /\ subject' = subject
                /\ last'.emits = 0
                /\ nextId' = nextId
           ELSE LET merged ==
                      MergeTask(tasks[i], [completed |-> ~tasks[i].completed],
                                clock)
                IN /\ last'.ret = <<merged>>
                   /\ tasks' = ReplaceAt(tasks, i, merged)
                   /\ subject' = tasks'
                   /\ last'.emits = 1
                   /\ nextId' = nextId]_vars

\* C12 witness: a toggleTaskCompletion has completed the pending sample task.
C12_Witness ==
    /\ last.op = "toggleTaskCompletion"
    /\ last.id = <<2>>
    /\ Len(last.ret) = 1
    /\ last.ret[1].completed
    /\ Len(tasks) = 2
    /\ tasks[2] = last.ret[1]

\* every toggleTaskCompletion of a held id negates completed and leaves the
\* task's other fields except updatedAt; the second of two in a row gives
\* completed the value it had before the first
ToggleTwiceRestores ==
    /\ IsCall("toggleTaskCompletion") /\ Holds(tasks, last'.id) =>
        LET i == FindIndex(tasks, last'.id) IN
        /\ tasks'[i].completed = ~tasks[i].completed
        /\ \A k \in TaskFields \ {"completed", "updatedAt"} :
            tasks'[i][k] = tasks[i][k]
        /\ last'.ret = <<tasks'[i]>>
    /\ IsCall("toggleTaskCompletion") /\ last.op = "toggleTaskCompletion"
       /\ last'.id = last.id /\ last.ret # Null =>
        /\ last'.ret # Null
        /\ last'.ret[1].completed = ~last.ret[1].completed

\* the step is the second of two toggleTaskCompletion calls in a row on one
\* held task
SecondToggle ==
    /\ IsCall("toggleTaskCompletion")
    /\ last.op = "toggleTaskCompletion"
    /\ last'.id = last.id
    /\ last.ret # Null

\* C13 as stated: two toggleTaskCompletion calls in a row restore completed,
\* leave the other fields except updatedAt, and give two distinct updatedAt
\* timestamps.
C13_Original ==
    [][/\ ToggleTwiceRestores
       /\ SecondToggle =>
            last'.ret[1].updatedAt # last.ret[1].updatedAt]_vars

\* C13 amended: two toggleTaskCompletion calls in a row restore completed and
\* leave the other fields except updatedAt; each sets updatedAt to the clock
\* value at its call, so the two timestamps are distinct exactly when the
\* clock value changed between the calls, and equal otherwise.
C13_ToggleTwice ==
    [][/\ ToggleTwiceRestores
       /\ IsCall("toggleTaskCompletion") /\ last'.ret # Null =>
            last'.ret[1].updatedAt = clock
       /\ SecondToggle =>
            (last'.ret[1].updatedAt # last.ret[1].updatedAt
                <=> clock # last.ret[1].updatedAt)]_vars

\* C13 witness: the store's first two calls toggled the completed sample task
\* twice: it is completed again, with its other fields as constructed.
C13_Witness ==
    /\ calls = 2
    /\ last.op = "toggleTaskCompletion"
    /\ last.id = <<1>>
    /\ Len(last.ret) = 1
    /\ last.ret[1].completed
    /\ Len(tasks) = 2
    /\ tasks[1] = last.ret[1]
    /\ tasks[1] = [SampleTasks(StartClock)[1] EXCEPT !.updatedAt = clock]
    /\ tasks[2] = SampleTasks(StartClock)[2]
    /\ clock = StartClock

----------------------------------------------------------------------------
(* Derived views *)

\* the number of elements of a sequence of tasks that satisfy P
CountIf(ts, P(_)) == Cardinality({ i \in 1..Len(ts) : P(ts[i]) })
IsCompleted(t) == t.completed = TRUE
IsPending(t) == t.completed = FALSE

\* C14: in every reachable state totalTasksCount is the length of the
\* collection, completedTasksCount the number of tasks with completed = true,
\* pendingTasksCount the number with completed = false, and the total is the
\* sum of the two.
C14_AggregatesConsistent ==
    /\ totalTasksCount = Len(tasks)
    /\ completedTasksCount = CountIf(tasks, IsCompleted)
    /\ pendingTasksCount = CountIf(tasks, IsPending)
    /\ totalTasksCount = completedTasksCount + pendingTasksCount

\* C14 witness: after a toggleTaskCompletion the store holds completed and
\* pending tasks, more of one kind than of the other.
C14_Witness ==
    /\ last.op = "toggleTaskCompletion"
    /\ Len(last.ret) = 1
    /\ completedTasksCount >= 1
    /\ pendingTasksCount >= 2

----------------------------------------------------------------------------
(* Timestamps and notifications *)

\* C16: every task held has createdAt <= updatedAt in every reachable state
\* (the clock never runs backwards), and a task that is held before and after
\* a step keeps its createdAt.
C16_Timestamps ==
    /\ [](\A i \in 1..Len(tasks) : tasks[i].createdAt <= tasks[i].updatedAt)
    /\ [][\A i \in 1..Len(tasks), j \in 1..Len(tasks') :
            tasks[i].id = tasks'[j].id =>
                tasks'[j].createdAt = tasks[i].createdAt]_vars

\* C16 witness: a task made by createTask was updated at a later clock value.
C16_Witness ==
    \E i \in 1..Len(tasks) :
        /\ tasks[i].id \in { issued[n] : n \in 1..Len(issued) }
        /\ tasks[i].createdAt = StartClock
        /\ tasks[i].updatedAt > tasks[i].createdAt

\* the step is a call that changes the collection: every createTask and
\* clearAllTasks, and an updateTask, toggleTaskCompletion or deleteTask of a
\* held id
IsMutation ==
    \/ IsCall("createTask")
    \/ IsCall("clearAllTasks")
    \/ /\ IsCall("updateTask") \/ IsCall("toggleTaskCompletion")
          \/ IsCall("deleteTask")
       /\ Holds(tasks, last'.id)

\* C18: every mutation emits exactly one value on tasks$, the new collection,
\* and after every operation the last value emitted on tasks$ is the value
\* of the tasks signal.
C18_NotificationsMirror ==
    /\ [](subject = tasks)
    /\ [][IsMutation => last'.emits = 1 /\ subject' = tasks']_vars

\* C18 witness: an updateTask has installed and emitted a collection that
\* holds the task it returned.
C18_Witness ==
    /\ last.op = "updateTask"
    /\ Len(last.ret) = 1
    /\ last.emits = 1
    /\ DOMAIN last.patch # {}
    /\ subject = tasks
    /\ subject[FindIndex(subject, last.id)] = last.ret[1]

\* C17: every mutation is atomic for observers: whenever a subscriber of
\* tasks$ runs during a call's notification, the collection and the counter
\* it finds in the store are both those of before the call or both those of
\* after the call.
C17_AtomicForObservers ==
    [][calls' = calls + 1 /\ last'.emits = 1 =>
            \/ last'.seen = Seen(tasks, nextId)
            \/ last'.seen = Seen(tasks', nextId')]_vars

----------------------------------------------------------------------------
(* The filtered view *)

\* v holds exactly the tasks of ts that satisfy P, each once, in ts's order
IsProjection(v, ts, P(_)) ==
    /\ Len(v) = CountIf(ts, P)
    /\ \A a \in 1..Len(v) : P(v[a]) /\ \E i \in 1..Len(ts) : ts[i] = v[a]
    /\ \A i \in 1..Len(ts) : P(ts[i]) => \E a \in 1..Len(v) : v[a] = ts[i]
    /\ \A a, b \in 1..Len(v) :
            a < b => FindIndex(ts, v[a].id) < FindIndex(ts, v[b].id)

\* C15: for every collection the filtered view is an order-preserving
\* projection that leaves the store alone: 'all' is the whole collection,
\* 'pending' exactly the tasks not completed, 'completed' exactly the
\* completed ones; the pending and completed ids are disjoint and together
\* are the ids of 'all'; setting the filter changes nothing in the store.
C15_FilteredView ==
    /\ [](/\ filteredTasksFor("all", tasks) = tasks
          /\ IsProjection(filteredTasksFor("pending", tasks), tasks, IsPending)
          /\ IsProjection(filteredTasksFor("completed", tasks), tasks,
                          IsCompleted)
          /\ IdsOf(filteredTasksFor("pending", tasks))
                \cap IdsOf(filteredTasksFor("completed", tasks)) = {}
          /\ IdsOf(filteredTasksFor("pending", tasks))
                \cup IdsOf(filteredTasksFor("completed", tasks))
                = IdsOf(filteredTasksFor("all", tasks))
          /\ filteredTasksView \in { filteredTasksFor(f, tasks) : f \in Filters })
    /\ [][currentFilter' # currentFilter =>
            /\ tasks' = tasks /\ subject' = subject /\ nextId' = nextId
            /\ filteredTasksView' = filteredTasksFor(currentFilter', tasks)]_vars

C15_Witness ==
    /\ currentFilter = "pending"
    /\ Len(filteredTasksView) = 2
    /\ Len(tasks) = 4
    /\ filteredTasksView[2].id = ToString(InitNextId + 1)

----------------------------------------------------------------------------
(* Snapshots *)

\* what the holder of snap reads through its references now
SnapshotRead ==
    IF snap.arrayLive THEN tasks
    ELSE [ i \in 1..Len(snap.value) |->
             IF snap.value[i].id \in snap.liveIds
             THEN tasks[FindIndex(tasks, snap.value[i].id)]
             ELSE snap.value[i] ]

\* C19: a sequence handed out by the store is stable: no later createTask,
\* updateTask, deleteTask, toggleTaskCompletion or clearAllTasks changes
\* its length, its order or a field of one of its tasks; each mutation
\* installs a new sequence, and an update a new task value.
C19_SnapshotStable ==
    /\ [](snap.taken =>
            /\ snap.liveIds \subseteq IdsOf(tasks)
            /\ SnapshotRead = snap.value)
    /\ [][IsMutation =>
            /\ ~snap'.arrayLive
            /\ (IsCall("updateTask") \/ IsCall("toggleTaskCompletion")) =>
                    last'.id \notin snap'.liveIds]_vars

C19_Witness ==
    /\ snap.taken
    /\ Len(snap.value) = 3
    /\ snap.liveIds = {ToString(1)}
    /\ last.op = "deleteTask" /\ last.deleted
    /\ Len(tasks) = 2
    /\ \E i \in 1..3 : /\ snap.value[i].id = ToString(2)
                        /\ Holds(tasks, ToString(2))
                        /\ tasks[FindIndex(tasks, ToString(2))] # snap.value[i]

----------------------------------------------------------------------------
(* Callers that await *)

\* the store after the operation of call record c is run on its own, to its
\* end, in a store holding ts and counter
RunAlone(c, ts, counter, now) ==
    LET i == FindIndex(ts, c.id)
        same == [tasks |-> ts, nextId |-> counter]
    IN CASE c.op = "createTask" ->
              [tasks |-> Append(ts, NewTask(counter, c.req, now)),
               nextId |-> counter + 1]
         [] c.op = "updateTask" ->
              IF i = 0 THEN same
              ELSE [tasks |-> [ts EXCEPT ![i] = MergeTask(ts[i], c.patch, now)],
                    nextId |-> counter]
         [] c.op = "toggleTaskCompletion" ->
              IF i = 0 THEN same
              ELSE [tasks |-> [ts EXCEPT ![i] =
                                 [ts[i] EXCEPT !.completed = ~ts[i].completed,
                                               !.updatedAt = now]],
                    nextId |-> counter]
         [] c.op = "deleteTask" ->
              [tasks |-> SelectSeq(ts, LAMBDA t : t.id # c.id),
               nextId |-> counter]
         [] c.op = "clearAllTasks" -> [tasks |-> <<>>, nextId |-> ClearedNextId]

\* C20: store operations are never interleaved: each one does its whole
\* read-modify-write in the step in which it is called and leaves nothing
\* under its promise, whatever promises of earlier calls are still awaited;
\* a caller's resumption writes nothing.  So every step is either one whole
\* operation run on the store as the calls before it left it, or no change:
\* the store is always the one that the calls made so far give when run
\* one after another in call order, and no update is lost.
C20_NoInterleaving ==
    /\ [](\A k \in 1..Len(inflight) : inflight[k] = NothingLeft)
    /\ [][IF calls' = calls + 1
          THEN /\ [tasks |-> tasks', nextId |-> nextId']
                    = RunAlone(last', tasks, nextId, clock)
               /\ inflight' = Append(inflight, NothingLeft)
          ELSE /\ tasks' = tasks /\ subject' = subject /\ nextId' = nextId
               /\ last' = last]_vars

\* two callers toggled the same task and neither has resumed
C20_Witness ==
    /\ calls = 2
    /\ Len(inflight) = 2
    /\ last.op = "toggleTaskCompletion"
    /\ last.id = ToString(1)
    /\ Len(last.ret) = 1
    /\ last.ret[1].completed = TRUE
    /\ tasks[1] = last.ret[1]

----------------------------------------------------------------------------
(* The components' outputs *)

\* the calls that succeeded and whose handler is still suspended at its await
AwaitedOk(out) ==
    Cardinality({ k \in 1..Len(item.awaiting) :
                    item.awaiting[k].out = out /\ item.awaiting[k].ok })
    + (IF /\ out = "taskUpdated"
          /\ form.awaiting # <<>>
          /\ form.awaiting[1].mode = "edit"
          /\ form.awaiting[1].result # Null
       THEN 1 ELSE 0)

OpOf(out) ==
    CASE out = "taskUpdated" -> "updateTask"
      [] out = "taskToggled" -> "toggleTaskCompletion"
      [] out = "taskDeleted" -> "deleteTask"

\* C21: the components skip their emit when the store reports failure:
\* taskToggled, taskDeleted and taskUpdated are emitted only by a handler
\* whose store call found the task, and once each; so in every run the
\* emissions of each output number the store operations of its kind that
\* succeeded, less those whose handler has not resumed yet.
C21_EmitOnlyOnSuccess ==
    /\ [](\A out \in {"taskUpdated", "taskToggled", "taskDeleted"} :
            events.emitted[out] + AwaitedOk(out) = events.succeeded[out])
    /\ [][\A out \in {"taskUpdated", "taskToggled", "taskDeleted"} :
            /\ IsCall(OpOf(out)) =>
                  /\ events'.emitted = events.emitted
                  /\ events'.succeeded[out] = events.succeeded[out]
                        + (IF Holds(tasks, last'.id) THEN 1 ELSE 0)
            /\ events'.emitted[out] # events.emitted[out] =>
                  /\ events'.emitted[out] = events.emitted[out] + 1
                  /\ AwaitedOk(out)' = AwaitedOk(out) - 1
                  /\ calls' = calls]_vars

C21_Witness ==
    /\ events.emitted["taskUpdated"] = 1
    /\ events.emitted["taskDeleted"] = 1
    /\ events.emitted["taskToggled"] = 0
    /\ last.op = "toggleTaskCompletion"
    /\ last.ret = Null
    /\ item.awaiting = <<>>
    /\ form.awaiting = <<>>

----------------------------------------------------------------------------
(* The form *)

\* C22: every task that the form creates or edits in the store has a
\* title that is not empty after trimming, whatever valid value the form
\* holds when it is submitted.
C22_TitleNotBlank ==
    [][(IsCall("createTask") \/ IsCall("updateTask")) /\ last'.ret # Null =>
            /\ Valid(form.value)
            /\ Trim(last'.ret[1].title) # ""
            /\ \E i \in 1..Len(tasks') :
                    tasks'[i] = last'.ret[1] /\ Trim(tasks'[i].title) # ""]_vars

\* the fields a patch leaves unspecified: the keys it lacks and the optional
\* fields it carries with the value undefined
Unspecified(patch) ==
    (TaskFields \ DOMAIN patch)
    \cup { k \in {"description", "dueDate"} \cap DOMAIN patch :
             patch[k] = Undefined }

\* C23: in updateTask's merge every field the caller leaves unspecified
\* keeps the task's prior value, also for the patch the form builds in
\* edit mode, where a blank description or due date is a field whose
\* value is undefined: the stored description and dueDate stay as they were.
C23_UnspecifiedRetained ==
    [][IsCall("updateTask") /\ Holds(tasks, last'.id) =>
            LET i == FindIndex(tasks, last'.id) IN
            \A k \in Unspecified(last'.patch) \ {"updatedAt"} :
                tasks'[i][k] = tasks[i][k]]_vars

\* the task that initializeEditMode loaded is still in the collection
LoadedPresent ==
    /\ events.loaded # <<>>
    /\ Holds(tasks, events.loaded[1])
    /\ clearedAt = events.loaded[2]

\* a submit of the form in edit mode
EditSubmit ==
    /\ calls' = calls + 1
    /\ form.isEditMode
    /\ form'.awaiting # <<>>
    /\ form.awaiting = <<>>

\* C24: an edit-mode submit only ever modifies the task that
\* initializeEditMode loaded: the id the form edits is never the id of a
\* task created after the loaded one was removed; and when the loaded task
\* has been removed by deleteTask or clearAllTasks, the submit modifies no
\* task, creates none, and no taskUpdated follows.
C24_EditsLoadedTaskOnly ==
    /\ [](form.isEditMode =>
            /\ events.loaded # <<>>
            /\ form.editingTaskId = events.loaded[1]
            /\ Holds(tasks, form.editingTaskId) => clearedAt = events.loaded[2])
    /\ [][EditSubmit =>
            /\ last'.op = "updateTask" /\ last'.id = events.loaded[1]
            /\ nextId' = nextId /\ Len(tasks') = Len(tasks)
            /\ \A i \in 1..Len(tasks) :
                    tasks'[i] # tasks[i] =>
                        LoadedPresent /\ tasks[i].id = events.loaded[1]
            /\ ~LoadedPresent =>
                    /\ tasks' = tasks /\ subject' = subject
                    /\ form'.awaiting[1].result = Null]_vars
    /\ [][events'.emitted["taskUpdated"] # events.emitted["taskUpdated"] =>
            form.awaiting # <<>> /\ form.awaiting[1].result # Null]_vars

\* the loaded task was cleared away, a submit followed and has resumed
C24_Witness ==
    /\ form.isEditMode
    /\ events.loaded = <<ToString(1), -1>>
    /\ clearedAt = 0
    /\ last.op = "updateTask"
    /\ last.ret = Null
    /\ form.awaiting = <<>>
    /\ ~form.isLoading
    /\ events.emitted["taskUpdated"] = 0

\* the create-mode submit that is suspended at its await
CreateAwaited == form.awaiting # <<>> /\ form.awaiting[1].mode = "create"

\* C25: onSubmit calls the store only when the form is valid and no submit
\* is in flight; with an invalid form or with isLoading = true it makes no
\* call, emits nothing and leaves the store as it is.  A valid create-mode
\* submit calls createTask once, emits taskCreated once and resets the form
\* to its defaults, and isLoading is false again once the submit has run.
C25_SubmitGuarded ==
    /\ [](/\ form.isLoading <=> form.awaiting # <<>>
          /\ events.emitted["taskCreated"] + (IF CreateAwaited THEN 1 ELSE 0)
                = Len(issued))
    /\ [][/\ IsCall("createTask") \/ IsCall("updateTask") =>
                /\ Valid(form.value) /\ ~form.isLoading
                /\ form'.isLoading
                /\ events'.emitted = events.emitted
          /\ OnSubmit /\ (~Valid(form.value) \/ form.isLoading) =>
                /\ calls' = calls /\ last' = last
                /\ tasks' = tasks /\ subject' = subject /\ nextId' = nextId
                /\ events'.emitted = events.emitted /\ events'.now = {}
          /\ IsCall("createTask") =>
                /\ ~form.isEditMode \/ form.editingTaskId = Null
                /\ last'.req = TaskRequest(form.value)
                /\ Len(tasks') = Len(tasks) + 1
                /\ CreateAwaited'
          /\ CreateAwaited /\ ~CreateAwaited' =>
                /\ events'.emitted["taskCreated"]
                        = events.emitted["taskCreated"] + 1
                /\ events'.now = {"taskCreated"}
                /\ form'.value = FormDefaults
                /\ ~form'.isLoading
                /\ calls' = calls]_vars

\* a task was created through the form, and a submit of the form as reset
\* was turned down
C25_Witness ==
    /\ events.emitted["taskCreated"] = 1
    /\ last.op = "createTask"
    /\ calls = 1
    /\ Len(tasks) = 3
    /\ form.value = FormDefaults
    /\ form.touched
    /\ ~form.isLoading

\* an edit-mode submit whose updateTask returned the task resumes
SavedEditResumes ==
    /\ form.awaiting # <<>>
    /\ form.awaiting[1].mode = "edit"
    /\ form.awaiting[1].result # Null
    /\ form'.awaiting = <<>>

\* C26: editCancelled is emitted only by a cancelEdit request, never by a
\* save: a saved edit emits taskUpdated and puts the form back in create
\* mode (isEditMode = false, editingTaskId = null) without editCancelled.
C26_CancelOnlyOnCancel ==
    [][SavedEditResumes =>
            /\ "taskUpdated" \in events'.now
            /\ ~form'.isEditMode
            /\ form'.editingTaskId = Null
            /\ "editCancelled" \notin events'.now]_vars

----------------------------------------------------------------------------
(* The items *)

\* the ids of the items that have a handler suspended at its await
AwaitingIds == { item.awaiting[k].id : k \in 1..Len(item.awaiting) }

\* C27: at most one store operation is in flight per item: while an item's
\* isLoading is true its onToggleComplete and onDeleteTask return without
\* calling the store; a delete whose confirmation is declined calls no
\* store operation; and isLoading is always eventually false again after a
\* toggle or delete attempt, whether the store returned the task or true,
\* or reported not-found.
C27_OneInFlightPerItem ==
    /\ [](/\ item.isLoading = AwaitingIds
          /\ \A j, k \in 1..Len(item.awaiting) :
                item.awaiting[j].id = item.awaiting[k].id => j = k)
    /\ [][/\ IsCall("toggleTaskCompletion") \/ IsCall("deleteTask") =>
                /\ last'.id \notin item.isLoading
                /\ item'.isLoading = item.isLoading \cup {last'.id}
          /\ \A id \in Ids :
                (OnDeleteTask(id, FALSE) \/
                 (id \in item.isLoading /\
                    (OnToggleComplete(id) \/ OnDeleteTask(id, TRUE)))) =>
                    /\ calls' = calls /\ last' = last
                    /\ tasks' = tasks /\ subject' = subject]_vars
    /\ \A id \in Ids : (id \in item.isLoading) ~> (id \notin item.isLoading)

\* a delete that succeeded and a toggle of the deleted task, both resumed
C27_Witness ==
    /\ last.op = "toggleTaskCompletion"
    /\ last.ret = Null
    /\ calls = 2
    /\ events.succeeded["taskDeleted"] = 1
    /\ events.emitted["taskDeleted"] = 1
    /\ item.isLoading = {}
    /\ item.awaiting = <<>>

====
